---------------------------- MODULE Spec2Model ----------------------------
(***************************************************************************)
(* A model of anaglyph.py: the converter create_anaglyph, the batch sweep  *)
(* process_directory and the command-line entry point.                    *)
(*                                                                         *)
(* A filename is a sequence of one-character strings, a path is a record   *)
(* [dir, name] (name = <<>> for the directory itself), the file system is  *)
(* a function from the paths that exist to their contents.  An image is a  *)
(* record [w, h, px] with px[y][x] the pixel of row y, column x, both      *)
(* counted from 1.                                                         *)
(***************************************************************************)
EXTENDS Integers, Sequences, FiniteSets, TLC

VARIABLES
    entry,      \* "main" (the script is run) or "process_directory" (called on its own)
    argv,       \* sys.argv[1:]: a sequence of arguments
    fs,         \* the file system: path -> content
    fs0,        \* history: the file system as the run found it
    pc,         \* position of the program
    offset_val, \* the offset after line 98 (of main) or as passed to process_directory
    out_dir,    \* process_directory's output_dir
    in_dir,     \* process_directory's input_dir
    listing,    \* the list os.listdir returned (line 80)
    idx,        \* position of the for loop in listing
    cin,        \* create_anaglyph's input_path
    cout,       \* create_anaglyph's output_path
    img,        \* create_anaglyph's img (line 40)
    anaglyph,   \* create_anaglyph's anaglyph (line 55)
    calls,      \* history: the calls of create_anaglyph and what they returned
    stdout,     \* history: the lines printed
    ops,        \* history: the file-system operations performed
    exitCode,   \* <<>> while running, <<c>> once the process has ended with code c
    raised      \* the uncaught exception that ended the run, or "none"

vars == <<entry, argv, fs, fs0, pc, offset_val, out_dir, in_dir, listing, idx, cin,
          cout, img, anaglyph, calls, stdout, ops, exitCode, raised>>

---------------------------------------------------------------------------
(* Bounds of the model. *)

\* Largest image width and height drawn for the converter's input.
MaxW == 3
MaxH == 2
\* Offsets are drawn from -MaxOff .. MaxOff.
MaxOff == 4
\* Largest number of entries of the input directory.
MaxFiles == 2

---------------------------------------------------------------------------
(* Strings: str.lower and os.path.splitext. *)

UpperChars == <<"A","B","C","D","E","F","G","H","I","J","K","L","M",
                "N","O","P","Q","R","S","T","U","V","W","X","Y","Z">>
LowerChars == <<"a","b","c","d","e","f","g","h","i","j","k","l","m",
                "n","o","p","q","r","s","t","u","v","w","x","y","z">>

\* The lower-case letter of each upper-case letter.
LowerMap ==
    [c \in { UpperChars[i] : i \in 1..Len(UpperChars) } |->
        LowerChars[CHOOSE i \in 1..Len(UpperChars) : UpperChars[i] = c]]

\* str.lower on one character.
LowerChar(c) == IF c \in DOMAIN LowerMap THEN LowerMap[c] ELSE c

\* filename.lower() (line 81).
Lower(s) == [i \in 1..Len(s) |-> LowerChar(s[i])]

\* p.rfind("."): the last index of a dot, 0 when there is none.
RFindDot(s) ==
    IF \E i \in 1..Len(s) : s[i] = "."
    THEN CHOOSE i \in 1..Len(s) : s[i] = "." /\ \A j \in (i+1)..Len(s) : s[j] # "."
    ELSE 0

\* os.path.splitext on a name without a separator: the extension starts at
\* the last dot, unless only dots come before it (leading dots are part of
\* the base: splitext(".jpg") is (".jpg", "")).
SplitExt(s) ==
    LET d == RFindDot(s)
    IN  IF d > 0 /\ \E i \in 1..(d-1) : s[i] # "."
        THEN <<SubSeq(s, 1, d-1), SubSeq(s, d, Len(s))>>
        ELSE <<s, <<>> >>

\* allowed_ext (line 78).
allowed_ext == { <<".","j","p","g">>, <<".","j","p","e","g">>, <<".","p","n","g">>,
                 <<".","b","m","p">>, <<".","t","i","f","f">>, <<".","t","i","f">> }

Suffix == <<"_","a","n","a","g","l","y","p","h">>

\* Lines 81-83 without line 81: the extension is compared as written.
Matches_CaseSensitive(filename) == SplitExt(filename)[2] \in allowed_ext

\* Lines 81-83: whether the sweep passes filename to the converter.
Matches(filename) == SplitExt(Lower(filename))[2] \in allowed_ext

\* Lines 85-86 with the name split after line 81's lower().
OutputName_Lowered(filename) ==
    LET sp == SplitExt(Lower(filename)) IN sp[1] \o Suffix \o sp[2]

\* Lines 85-86: f"{base}_anaglyph{ext_original}".
OutputName(filename) ==
    LET sp == SplitExt(filename) IN sp[1] \o Suffix \o sp[2]

---------------------------------------------------------------------------
(* Paths and the file system. *)

\* A directory's own path, and os.path.join(dir, filename).
DirPath(d) == [dir |-> d, name |-> <<>>]
Join(dirpath, filename) == [dir |-> dirpath.dir, name |-> filename]

NoImage == [kind |-> "none", mode |-> "", w |-> 0, h |-> 0, px |-> <<>>]
DirContent == [NoImage EXCEPT !.kind = "dir"]
\* A regular file that no decoder of the imaging library accepts.
Corrupt == [NoImage EXCEPT !.kind = "corrupt"]

Exists(f, p) == p \in DOMAIN f
IsDir(f, p) == p \in DOMAIN f /\ f[p].kind = "dir"

\* The names os.listdir(d) yields (in some order).  Directories are one level
\* deep: a subdirectory (a path with a name) has no entries of its own.
Entries(f, d) ==
    IF d.name # <<>> THEN {}
    ELSE { p.name : p \in { q \in DOMAIN f : q.dir = d.dir /\ q.name # <<>> } }

\* The sequences without repetition over a finite set: the orders a listing can have.
Perms(S) == { s \in [1..Cardinality(S) -> S] : \A i, j \in 1..Cardinality(S) : s[i] = s[j] => i = j }

Write(f, p, c) == [q \in DOMAIN f \cup {p} |-> IF q = p THEN c ELSE f[q]]

---------------------------------------------------------------------------
(* Images: Image.convert, ImageChops.offset, Image.split, Image.merge. *)

Coords(im) == (1..im.h) \X (1..im.w)

\* convert("RGB") of one pixel: L replicates the grey level, RGBA drops alpha.
PixelToRGB(mode, p) ==
    CASE mode = "L"    -> <<p[1], p[1], p[1]>>
      [] mode = "RGBA" -> <<p[1], p[2], p[3]>>
      [] OTHER         -> p

\* Image.open(input_path).convert("RGB") of a decodable file (line 40).
ConvertRGB(c) ==
    [w |-> c.w, h |-> c.h,
     px |-> [y \in 1..c.h |-> [x \in 1..c.w |-> PixelToRGB(c.mode, c.px[y][x])]]]

\* C's a % b for b > 0: the remainder has the sign of a.
CRem(a, b) == IF a >= 0 THEN a % b ELSE -((-a) % b)

\* A shift that drops the columns pushed over the edge instead of wrapping them.
Offset_Cropping(im, xoffset, yoffset) ==
    LET lost == CRem(IF xoffset < 0 THEN -xoffset ELSE xoffset, im.w)
    IN  [w |-> im.w - lost, h |-> im.h,
         px |-> [y \in 1..im.h |-> [x \in 1..(im.w - lost) |-> im.px[y][x]]]]

\* ImageChops.offset(im, xoffset, yoffset): the library reduces each offset
\* with C's %, subtracts it from the size, and reads out[y][x] from
\* in[(y + yoffset) % h][(x + xoffset) % w] (coordinates from 0).
Offset(im, xoffset, yoffset) ==
    LET xo == im.w - CRem(xoffset, im.w)
        yo == im.h - CRem(yoffset, im.h)
    IN  [w |-> im.w, h |-> im.h,
         px |-> [y \in 1..im.h |-> [x \in 1..im.w |->
                    im.px[((y - 1 + yo) % im.h) + 1][((x - 1 + xo) % im.w) + 1]]]]

\* im.split()[b-1]: one channel plane.
Band(im, b) ==
    [w |-> im.w, h |-> im.h,
     px |-> [y \in 1..im.h |-> [x \in 1..im.w |-> im.px[y][x][b]]]]

\* Image.merge("RGB", (r, g, b)): the size is the first band's.
Merge(r, g, b) ==
    [w |-> r.w, h |-> r.h,
     px |-> [y \in 1..r.h |-> [x \in 1..r.w |-> <<r.px[y][x], g.px[y][x], b.px[y][x]>>]]]

\* Lines 46-55 with the shift to the right (offset for -offset in line 46).
MakeAnaglyph_ShiftRight(im, offset) ==
    Merge(Band(Offset(im, offset, 0), 1), Band(im, 2), Band(im, 3))

\* Lines 46-55 without lines 49-55: the shifted view itself is the result.
MakeAnaglyph_AllShifted(im, offset) == Offset(im, -offset, 0)

\* Lines 46-55: the anaglyph of the RGB image im for an offset that fits a C int.
MakeAnaglyph(im, offset) ==
    LET left_img    == Offset(im, -offset, 0)
        left_red    == Band(left_img, 1)
        right_green == Band(im, 2)
        right_blue  == Band(im, 3)
    IN  Merge(left_red, right_green, right_blue)

---------------------------------------------------------------------------
(* The inputs the model draws from. *)

\* The default offset (lines 30, 65 and 98).
DefaultOffset == 10

\* An offset is [big, val]: big marks an integer outside the range of a C
\* int, which the model does not hold as a number.
IntOff(k) == [big |-> FALSE, val |-> k]
BigOff == [big |-> TRUE, val |-> 0]
\* A third argument that int() does not parse.
NotANumber == [big |-> FALSE, val |-> 0, nan |-> TRUE]
IntArg(o) == [big |-> o.big, val |-> o.val, nan |-> FALSE]

\* Filenames.
PhotoJPG == <<"p","h","o","t","o",".","J","P","G">>
PhotoLower == <<"p","h","o","t","o",".","j","p","g">>
PhotoPng == <<"p","h","o","t","o",".","p","n","g">>
PhotoOutJPG == <<"p","h","o","t","o","_","a","n","a","g","l","y","p","h",".","J","P","G">>
NotesTxt == <<"n","o","t","e","s",".","t","x","t">>
PicPng == <<"p","i","c",".","p","n","g">>
PicOutPng == <<"p","i","c","_","a","n","a","g","l","y","p","h",".","p","n","g">>
SubDir == <<"s","u","b">>
BadJpeg == <<"b","a","d",".","j","p","e","g">>
DotJpg == <<".","j","p","g">>
TwoDotsTif == <<"a",".","b",".","t","i","f">>
ScanBmp == <<"s","c","a","n",".","b","m","p">>
ScanTiff == <<"s","c","a","n",".","T","i","f","f">>
OutPng == <<"o",".","p","n","g">>
OutXyz == <<"o",".","x","y","z">>

Names == { PhotoJPG, PhotoLower, PhotoPng, PhotoOutJPG, NotesTxt, PicPng, PicOutPng,
           SubDir, BadJpeg, DotJpg, TwoDotsTif, ScanBmp, ScanTiff }

\* The pixel values the RGB images are drawn from.
Palette == { <<200, 100, 50>>, <<10, 20, 30>> }

\* Every RGB image file of a size up to MaxW x MaxH over the palette.
ImageFiles ==
    UNION { UNION {
        { [kind |-> "image", mode |-> "RGB", w |-> w, h |-> h, px |-> px] :
            px \in [1..h -> [1..w -> Palette]] }
        : h \in 1..MaxH } : w \in 1..MaxW }

\* Three fixed image files, one of each mode, for the entries of a directory.
ImgRGB ==
    [kind |-> "image", mode |-> "RGB", w |-> 3, h |-> 1,
     px |-> << << <<11, 12, 13>>, <<21, 22, 23>>, <<31, 32, 33>> >> >>]
ImgRGBA ==
    [kind |-> "image", mode |-> "RGBA", w |-> 2, h |-> 2,
     px |-> << << <<1, 2, 3, 255>>, <<4, 5, 6, 0>> >>,
               << <<7, 8, 9, 128>>, <<10, 11, 12, 255>> >> >>]
ImgL ==
    [kind |-> "image", mode |-> "L", w |-> 2, h |-> 1, px |-> << << <<5>>, <<250>> >> >>]

\* What the entry of a given name holds in the directories the model draws.
ContentOf(n) ==
    CASE n \in {SubDir, PicOutPng}  -> DirContent
      [] n \in {NotesTxt, BadJpeg}  -> Corrupt
      [] n \in {PicPng, ScanTiff}   -> ImgRGBA
      [] n \in {PhotoLower, ScanBmp} -> ImgL
      [] OTHER                      -> ImgRGB

\* A directory d holding the entries S.
DirWith(d, S) ==
    [p \in {DirPath(d)} \cup { Join(DirPath(d), n) : n \in S } |->
        IF p.name = <<>> THEN DirContent ELSE ContentOf(p.name)]

---------------------------------------------------------------------------
(* Initial states. *)

NoPath == DirPath("")
NoPic == [w |-> 0, h |-> 0, px |-> <<>>]
InDir == DirPath("in")
OutDir == DirPath("out")

\* The variables no initial state sets differently.
InitLocals ==
    /\ listing = <<>>
    /\ idx = 0
    /\ cin = NoPath
    /\ cout = NoPath
    /\ img = NoPic
    /\ anaglyph = NoPic
    /\ calls = <<>>
    /\ stdout = <<>>
    /\ ops = <<>>
    /\ exitCode = <<>>
    /\ raised = "none"

\* The script is started with the arguments a on the file system f.
InitMain(a, f) ==
    /\ entry = "main"
    /\ argv = a
    /\ fs = f
    /\ fs0 = f
    /\ pc = "main"
    /\ offset_val = IntOff(0)
    /\ in_dir = NoPath
    /\ out_dir = NoPath
    /\ InitLocals

\* process_directory(i, o, off) is called on its own on the file system f.
InitSweep(i, o, off, f) ==
    /\ entry = "process_directory"
    /\ argv = <<>>
    /\ fs = f
    /\ fs0 = f
    /\ pc = "pd"
    /\ offset_val = off
    /\ in_dir = i
    /\ out_dir = o
    /\ InitLocals

\* How the output directory stands to the input directory before a sweep:
\* the path given and what the file system holds for it.
OutVariants == { "empty", "missing", "file", "same", "blocked" }
OutPathOf(v) == IF v = "same" THEN InDir ELSE OutDir
OutFsOf(v) ==
    CASE v = "empty"   -> DirWith("out", {})
      [] v = "file"    -> (OutDir :> Corrupt)
      [] v = "blocked" -> DirWith("out", {PicOutPng})
      [] OTHER         -> << >>

\* The third argument: absent, an integer, an integer too large for C, not an integer.
ArgTails(offs) == { << >> } \cup { <<IntArg(o)>> : o \in offs } \cup { <<NotANumber>> }

SmallDirs ==
    { S \in SUBSET Names : Cardinality(S) <= MaxFiles } \cup { {PhotoJPG, NotesTxt, PicPng} }

\* Batch mode: a directory of at most MaxFiles entries.
InitBatch ==
    \E S \in SmallDirs, v \in OutVariants :
        LET f == DirWith("in", S) @@ OutFsOf(v)
        IN  \/ \E t \in ArgTails({BigOff}) :
                 InitMain(<<InDir, OutPathOf(v)>> \o t, f)
            \/ \E off \in {IntOff(1), BigOff} :
                 InitSweep(InDir, OutPathOf(v), off, f)

\* Single-file mode on the entries of a small directory, a missing input included.
InitSingle ==
    \E n \in Names \cup {OutXyz}, o \in {Join(OutDir, OutPng), Join(OutDir, OutXyz),
                                        Join(DirPath("gone"), OutPng), OutDir},
       t \in ArgTails({IntOff(2), BigOff}) :
        InitMain(<<Join(InDir, n), o>> \o t,
                 DirWith("in", {n} \cap Names) @@ DirWith("out", {}))

\* Single-file mode on every RGB image up to MaxW x MaxH, and on a grey and
\* an RGBA image, with every offset up to MaxOff.
InitImages ==
    \E c \in ImageFiles \cup {ImgL, ImgRGBA}, k \in (-MaxOff)..MaxOff :
        InitMain(<<Join(InDir, PhotoJPG), Join(OutDir, OutPng), IntArg(IntOff(k))>>,
                 (Join(InDir, PhotoJPG) :> c) @@ DirWith("in", {}) @@ DirWith("out", {}))

\* Fewer than two arguments.
InitUsage ==
    \E a \in { << >>, <<InDir>>, <<Join(InDir, PhotoJPG)>> } :
        InitMain(a, DirWith("in", {PhotoJPG}))

InitSmall == InitBatch \/ InitSingle \/ InitUsage
Init == InitSmall \/ InitImages

---------------------------------------------------------------------------
(* The entry point, lines 91-107. *)

\* sys.exit(code), or the end of the script.
Exit(code) ==
    /\ pc' = "end"
    /\ exitCode' = IF entry = "main" THEN <<code>> ELSE exitCode

\* An exception no handler catches: the interpreter prints a traceback and
\* the process ends with status 1.
Raise(exc) ==
    /\ raised' = exc
    /\ Exit(1)

Say(msg, p) == stdout' = Append(stdout, [msg |-> msg, path |-> p])
Op(op, p) == ops' = Append(ops, [op |-> op, path |-> p])

\* Lines 92-94: len(sys.argv) < 3.
Usage ==
    /\ pc = "main"
    /\ Len(argv) < 2
    /\ Say("usage", NoPath)
    /\ Exit(1)
    /\ UNCHANGED <<fs0, entry, argv, fs, offset_val, out_dir, in_dir, listing, idx, cin,
                   cout, img, anaglyph, calls, ops, raised>>

\* Line 98: int(sys.argv[3]) raises ValueError.
BadOffset ==
    /\ pc = "main"
    /\ Len(argv) > 2
    /\ argv[3].nan
    /\ Raise("ValueError")
    /\ UNCHANGED <<fs0, entry, argv, fs, offset_val, out_dir, in_dir, listing, idx, cin,
                   cout, img, anaglyph, calls, stdout, ops>>

\* Lines 96-98.
ParseArgs ==
    /\ pc = "main"
    /\ Len(argv) >= 2
    /\ Len(argv) > 2 => ~argv[3].nan
    /\ offset_val' = IF Len(argv) > 2 THEN [big |-> argv[3].big, val |-> argv[3].val]
                                      ELSE IntOff(DefaultOffset)
    /\ pc' = "dispatch"
    /\ UNCHANGED <<fs0, entry, argv, fs, out_dir, in_dir, listing, idx, cin, cout, img,
                   anaglyph, calls, stdout, ops, exitCode, raised>>

\* Lines 101-104: the input is a directory and the output is not.
Mismatch ==
    /\ pc = "dispatch"
    /\ IsDir(fs, argv[1])
    /\ ~IsDir(fs, argv[2])
    /\ Say("mismatch", NoPath)
    /\ Exit(1)
    /\ UNCHANGED <<fs0, entry, argv, fs, offset_val, out_dir, in_dir, listing, idx, cin,
                   cout, img, anaglyph, calls, ops, raised>>

\* Lines 101, 105 without the check of lines 102-104.
CallBatch_Unchecked ==
    /\ pc = "dispatch"
    /\ IsDir(fs, argv[1])
    /\ in_dir' = argv[1]
    /\ out_dir' = argv[2]
    /\ pc' = "pd"
    /\ UNCHANGED <<fs0, entry, argv, fs, offset_val, listing, idx, cin, cout, img,
                   anaglyph, calls, stdout, ops, exitCode, raised>>

\* Lines 101-105: process_directory(input_path, output_path, offset_val).
CallBatch ==
    /\ pc = "dispatch"
    /\ IsDir(fs, argv[1])
    /\ IsDir(fs, argv[2])
    /\ in_dir' = argv[1]
    /\ out_dir' = argv[2]
    /\ pc' = "pd"
    /\ UNCHANGED <<fs0, entry, argv, fs, offset_val, listing, idx, cin, cout, img,
                   anaglyph, calls, stdout, ops, exitCode, raised>>

\* A call of create_anaglyph(i, o, offset_val): the history notes it.
Called(i, o) ==
    /\ cin' = i
    /\ cout' = o
    /\ calls' = Append(calls, [inp |-> i, outp |-> o, off |-> offset_val,
                               ret |-> "pending", src |-> NoPic, res |-> NoPic])
    /\ pc' = "open"

\* Lines 106-107: create_anaglyph(input_path, output_path, offset_val).
CallSingle ==
    /\ pc = "dispatch"
    /\ ~IsDir(fs, argv[1])
    /\ Called(argv[1], argv[2])
    /\ UNCHANGED <<fs0, entry, argv, fs, offset_val, out_dir, in_dir, listing, idx, img,
                   anaglyph, stdout, ops, exitCode, raised>>

---------------------------------------------------------------------------
(* process_directory, lines 65-89. *)

\* Lines 74-75: create output_dir when nothing exists at the path.
EnsureOutputDir ==
    /\ pc = "pd"
    /\ IF ~Exists(fs, out_dir)
       THEN /\ fs' = Write(fs, out_dir, DirContent)
            /\ Op("makedirs", out_dir)
       ELSE UNCHANGED <<fs, ops>>
    /\ pc' = "list"
    /\ UNCHANGED <<fs0, entry, argv, offset_val, out_dir, in_dir, listing, idx, cin, cout,
                   img, anaglyph, calls, stdout, exitCode, raised>>

\* Line 80: os.listdir(input_dir) is evaluated once, in an order of the
\* file system's choosing.
ListDir ==
    /\ pc = "list"
    /\ \E s \in Perms(Entries(fs, in_dir)) : listing' = s
    /\ idx' = 1
    /\ Op("listdir", in_dir)
    /\ pc' = "loop"
    /\ UNCHANGED <<fs0, entry, argv, fs, offset_val, out_dir, in_dir, cin, cout, img,
                   anaglyph, calls, stdout, exitCode, raised>>

\* Lines 81-83, 88-89: an entry whose extension is not allowed.
Skip ==
    /\ pc = "loop"
    /\ idx <= Len(listing)
    /\ ~Matches(listing[idx])
    /\ Say("skip", Join(NoPath, listing[idx]))
    /\ idx' = idx + 1
    /\ UNCHANGED <<fs0, entry, argv, fs, pc, offset_val, out_dir, in_dir, listing, cin,
                   cout, img, anaglyph, calls, ops, exitCode, raised>>

\* Lines 81-87: an entry whose extension is allowed goes to the converter.
Invoke ==
    /\ pc = "loop"
    /\ idx <= Len(listing)
    /\ Matches(listing[idx])
    /\ Called(Join(in_dir, listing[idx]), Join(out_dir, OutputName(listing[idx])))
    /\ UNCHANGED <<fs0, entry, argv, fs, offset_val, out_dir, in_dir, listing, idx, img,
                   anaglyph, stdout, ops, exitCode, raised>>

\* The for loop is exhausted: process_directory returns, and with it the script.
SweepDone ==
    /\ pc = "loop"
    /\ idx > Len(listing)
    /\ Exit(0)
    /\ UNCHANGED <<fs0, entry, argv, fs, offset_val, out_dir, in_dir, listing, idx, cin,
                   cout, img, anaglyph, calls, stdout, ops, raised>>

---------------------------------------------------------------------------
(* create_anaglyph, lines 30-63. *)

\* The last call's record with the fields of r replaced.
Noted(r) ==
    [calls EXCEPT ![Len(calls)] = [f \in DOMAIN @ |-> IF f \in DOMAIN r THEN r[f] ELSE @[f]]]

\* create_anaglyph returns: the sweep goes on with the next entry, the
\* script ends.
Resume ==
    /\ IF idx > 0
       THEN /\ idx' = idx + 1
            /\ pc' = "loop"
            /\ UNCHANGED exitCode
       ELSE /\ UNCHANGED idx
            /\ Exit(0)

\* Whether Image.open(p).convert("RGB") succeeds: p is a decodable regular file.
Loadable(f, p) == Exists(f, p) /\ f[p].kind = "image"

\* Lines 39-40 without the handler of lines 41-43: the error leaves the call.
OpenFail_Uncaught ==
    /\ pc = "open"
    /\ ~Loadable(fs, cin)
    /\ Op("open", cin)
    /\ calls' = Noted([ret |-> "raised"])
    /\ Raise("OSError")
    /\ UNCHANGED <<fs0, entry, argv, fs, offset_val, out_dir, in_dir, listing, idx, cin,
                   cout, img, anaglyph, stdout>>

\* Lines 39-43: the image cannot be loaded.
OpenFail ==
    /\ pc = "open"
    /\ ~Loadable(fs, cin)
    /\ Op("open", cin)
    /\ Say("erropen", cin)
    /\ calls' = Noted([ret |-> "False"])
    /\ Resume
    /\ UNCHANGED <<fs0, entry, argv, fs, offset_val, out_dir, in_dir, listing, cin, cout,
                   img, anaglyph, raised>>

\* Lines 39-40.
OpenOk ==
    /\ pc = "open"
    /\ Loadable(fs, cin)
    /\ Op("open", cin)
    /\ img' = ConvertRGB(fs[cin])
    /\ pc' = "shift"
    /\ UNCHANGED <<fs0, entry, argv, fs, offset_val, out_dir, in_dir, listing, idx, cin,
                   cout, anaglyph, calls, stdout, exitCode, raised>>

\* Line 46 with an offset outside the range of a C int: the library hands
\* its offsets to C as int, the conversion raises OverflowError, and line 46
\* is in no try block.
ShiftOverflow ==
    /\ pc = "shift"
    /\ offset_val.big
    /\ calls' = Noted([ret |-> "raised"])
    /\ Raise("OverflowError")
    /\ UNCHANGED <<fs0, entry, argv, fs, offset_val, out_dir, in_dir, listing, idx, cin,
                   cout, img, anaglyph, stdout, ops>>

\* Lines 46-55.
Build ==
    /\ pc = "shift"
    /\ ~offset_val.big
    /\ anaglyph' = MakeAnaglyph(img, offset_val.val)
    /\ pc' = "save"
    /\ UNCHANGED <<fs0, entry, argv, fs, offset_val, out_dir, in_dir, listing, idx, cin,
                   cout, img, calls, stdout, ops, exitCode, raised>>

\* The extensions the library has an encoder for, among those the model's
\* names can have.
RegisteredExt == allowed_ext

\* Whether anaglyph.save(p) succeeds: the extension names an encoder, the
\* parent is a directory and p is not one.
Writable(f, p) ==
    /\ SplitExt(Lower(p.name))[2] \in RegisteredExt
    /\ IsDir(f, DirPath(p.dir))
    /\ ~IsDir(f, p)

\* What the saved file holds: the encoding of im (the pixel grid handed to
\* the encoder).
Encoded(im) == [kind |-> "image", mode |-> "RGB", w |-> im.w, h |-> im.h, px |-> im.px]

\* Lines 57-60.
SaveOk ==
    /\ pc = "save"
    /\ Writable(fs, cout)
    /\ Op("save", cout)
    /\ fs' = Write(fs, cout, Encoded(anaglyph))
    /\ Say("saved", cout)
    /\ calls' = Noted([ret |-> "True", src |-> img, res |-> anaglyph])
    /\ Resume
    /\ UNCHANGED <<fs0, entry, argv, offset_val, out_dir, in_dir, listing, cin, cout, img,
                   anaglyph, raised>>

\* Lines 57-58, 61-63: save raises before anything is written.
SaveFail ==
    /\ pc = "save"
    /\ ~Writable(fs, cout)
    /\ Op("save", cout)
    /\ Say("errsave", cout)
    /\ calls' = Noted([ret |-> "False", src |-> img, res |-> anaglyph])
    /\ Resume
    /\ UNCHANGED <<fs0, entry, argv, fs, offset_val, out_dir, in_dir, listing, cin, cout,
                   img, anaglyph, raised>>

---------------------------------------------------------------------------
(* The specifications. *)

Next ==
    \/ Usage \/ BadOffset \/ ParseArgs \/ Mismatch \/ CallBatch \/ CallSingle
    \/ EnsureOutputDir \/ ListDir \/ Skip \/ Invoke \/ SweepDone
    \/ OpenFail \/ OpenOk \/ ShiftOverflow \/ Build \/ SaveOk \/ SaveFail

Spec == Init /\ [][Next]_vars

---------------------------------------------------------------------------
(* The properties. *)

\* The calls of create_anaglyph that returned True.
Succeeded == { i \in DOMAIN calls : calls[i].ret = "True" }

\* C1: a successful create_anaglyph with offset k on an RGB image of width
\* W >= 1 yields an image whose red channel at (x, y), counted from 0, is the
\* input's red channel at ((x + k) mod W, y), for every integer k; no row
\* moves, and the result is that of the offset k mod W.
C1_RedShiftedLeft ==
    \A i \in Succeeded :
        LET s == calls[i].src
            r == calls[i].res
            k == calls[i].off.val
        IN  /\ s.w >= 1
            /\ \A y \in 0..(s.h - 1), x \in 0..(s.w - 1) :
                   r.px[y + 1][x + 1][1] = s.px[y + 1][((x + k) % s.w) + 1][1]
            /\ r = MakeAnaglyph(s, k % s.w)

\* A successful call on a 3 x 2 image whose red columns differ, with a
\* negative offset beyond the width.
C1_Witness ==
    \E i \in Succeeded :
        /\ calls[i].src.w = 3 /\ calls[i].src.h = 2
        /\ calls[i].off.val = -4
        /\ calls[i].src.px[1][1][1] # calls[i].src.px[1][3][1]
        /\ calls[i].res.px[1] # calls[i].src.px[1]
        /\ calls[i].src.px[1] # calls[i].src.px[2]

\* C2: a successful create_anaglyph yields an image whose green and blue
\* channels are those of the RGB-normalized input at every pixel.
C2_GreenBlueKept ==
    \A i \in Succeeded :
        \A y \in 1..calls[i].src.h, x \in 1..calls[i].src.w :
            /\ calls[i].res.px[y][x][2] = calls[i].src.px[y][x][2]
            /\ calls[i].res.px[y][x][3] = calls[i].src.px[y][x][3]

\* A successful call that moved the red channel of an image whose green and
\* blue differ from column to column.
C2_Witness ==
    \E i \in Succeeded :
        /\ calls[i].src.w = 3
        /\ calls[i].off.val = 2
        /\ calls[i].src.px[1][1][2] # calls[i].src.px[1][2][2]
        /\ calls[i].src.px[1][1][3] # calls[i].src.px[1][2][3]
        /\ calls[i].res.px[1][1][1] # calls[i].src.px[1][1][1]

\* C3: the image create_anaglyph builds has the width and the height of its
\* input, whatever the offset.
C3_SameSize ==
    \A i \in DOMAIN calls :
        calls[i].res # NoPic =>
            /\ calls[i].res.w = calls[i].src.w
            /\ calls[i].res.h = calls[i].src.h
            /\ Len(calls[i].res.px) = calls[i].src.h
            /\ \A y \in 1..calls[i].src.h : Len(calls[i].res.px[y]) = calls[i].src.w
            /\ \/ calls[i].inp \in { calls[j].outp : j \in 1..(i-1) }
               \/ /\ calls[i].src.w = fs0[calls[i].inp].w
                  /\ calls[i].src.h = fs0[calls[i].inp].h

\* A successful call on a 3 x 2 image with an offset beyond its width.
C3_Witness ==
    \E i \in Succeeded :
        /\ calls[i].src.w = 3 /\ calls[i].src.h = 2
        /\ calls[i].off.val = 4
        /\ calls[i].res.w = 3

\* C4: when the input cannot be loaded, create_anaglyph returns False,
\* raises nothing and leaves the file system as it was: the call itself
\* touches no file, and the step that meets the load failure ends the call
\* with False, no exception and no save.
C4_LoadFailure ==
    [][ /\ (pc # "open" /\ pc' = "open") => fs' = fs
        /\ (pc = "open" /\ ~Loadable(fs, cin)) =>
              /\ fs' = fs
              /\ pc' # "open"
              /\ calls'[Len(calls')].ret = "False"
              /\ raised' = "none"
              /\ \A j \in DOMAIN ops' : ops'[j].op = "save" => j \in DOMAIN ops
              /\ stdout' = Append(stdout, [msg |-> "erropen", path |-> cin])
      ]_vars

\* The script has ended with 0 after a single conversion of a missing input
\* returned False, and nothing exists at the output path.
C4_Witness ==
    /\ pc = "end"
    /\ idx = 0
    /\ Len(calls) = 1
    /\ calls[1].ret = "False"
    /\ ~Exists(fs0, calls[1].inp)
    /\ ~Exists(fs, calls[1].outp)
    /\ fs = fs0
    /\ raised = "none"

\* The extension of a name in the sense of os.path.splitext: the part from
\* the last dot on, when something other than dots comes before that dot.
ExtStart(n) ==
    { d \in 2..Len(n) : /\ n[d] = "."
                        /\ \A j \in (d+1)..Len(n) : n[j] # "."
                        /\ \E j \in 1..(d-1) : n[j] # "." }

\* The six extensions, in lower case.
ImageExt == { <<".","j","p","g">>, <<".","j","p","e","g">>, <<".","p","n","g">>,
              <<".","b","m","p">>, <<".","t","i","f","f">>, <<".","t","i","f">> }

\* base + ext is an image name when ext, in lower case, is one of the six.
IsImageName(n) == \E d \in ExtStart(n) : Lower(SubSeq(n, d, Len(n))) \in ImageExt

\* base + "_anaglyph" + ext, the extension as written.
Expected(n) ==
    LET d == CHOOSE d \in ExtStart(n) : TRUE
    IN  SubSeq(n, 1, d - 1) \o <<"_","a","n","a","g","l","y","p","h">> \o SubSeq(n, d, Len(n))

\* A sweep has run to its end.
SweepEnded == pc = "end" /\ idx > 0 /\ raised = "none"

\* C5: after a sweep into an output directory that was empty (or absent), every
\* conversion having succeeded, the output directory holds exactly base +
\* "_anaglyph" + ext for the input entries base + ext whose extension is,
\* case-insensitively, one of the six; every other entry has its skip
\* notice and was not given to the converter.
C5_BatchOutput ==
    ( /\ SweepEnded
      /\ Entries(fs0, out_dir) = {}
      /\ \A i \in DOMAIN calls : calls[i].ret = "True" )
    => /\ Entries(fs, out_dir) = { Expected(n) : n \in { m \in Entries(fs0, in_dir) : IsImageName(m) } }
       /\ \A n \in Entries(fs0, in_dir) :
             ~IsImageName(n) =>
                /\ Cardinality({ j \in DOMAIN stdout : stdout[j] = [msg |-> "skip", path |-> Join(NoPath, n)] }) = 1
                /\ \A i \in DOMAIN calls : calls[i].inp # Join(in_dir, n)
                /\ \A j \in DOMAIN stdout : stdout[j].path.name # n \/ stdout[j].msg = "skip"

\* The sweep of photo.JPG, notes.txt and pic.png into an empty directory has ended.
C5_Witness ==
    /\ SweepEnded
    /\ Entries(fs0, in_dir) = {PhotoJPG, NotesTxt, PicPng}
    /\ Entries(fs0, out_dir) = {}
    /\ Entries(fs, out_dir) = { <<"p","h","o","t","o","_","a","n","a","g","l","y","p","h",".","J","P","G">>,
                                <<"p","i","c","_","a","n","a","g","l","y","p","h",".","p","n","g">> }
    /\ \A i \in DOMAIN calls : calls[i].ret = "True"

\* The entries of the listing the loop has dealt with or is dealing with.
Visited == IF pc = "loop" THEN idx - 1 ELSE IF idx > Len(listing) THEN Len(listing) ELSE idx

\* The matching entries of a sequence of names, in order.
RECURSIVE ImageNames(_)
ImageNames(s) ==
    IF s = <<>> THEN <<>>
    ELSE (IF IsImageName(Head(s)) THEN <<Head(s)>> ELSE <<>>) \o ImageNames(Tail(s))

ArgumentError ==
    \/ Len(argv) < 2
    \/ IsDir(fs0, argv[1]) /\ ~IsDir(fs0, argv[2])

C8_ArgumentErrorFirst ==
    /\ (entry = "main" /\ ArgumentError) =>
          /\ pc \in {"main", "dispatch", "end"}
          /\ pc = "end" => exitCode = <<1>> /\ raised \in {"none", "ValueError"}
          /\ ops = <<>>
          /\ calls = <<>>
          /\ fs = fs0
    /\ (entry = "process_directory" /\ ~Exists(fs0, out_dir) /\ pc # "pd") =>
          /\ IsDir(fs, out_dir)
          /\ ops[1] = [op |-> "makedirs", path |-> out_dir]

\* The script has ended with 1 for a directory holding an image and an
\* output path at which nothing exists, and nothing exists there still.
C8_Witness ==
    /\ entry = "main"
    /\ pc = "end"
    /\ exitCode = <<1>>
    /\ raised = "none"
    /\ Len(argv) >= 2
    /\ IsDir(fs0, argv[1])
    /\ PhotoJPG \in Entries(fs0, argv[1])
    /\ ~Exists(fs0, argv[2])
    /\ ~Exists(fs, argv[2])
    /\ stdout = <<[msg |-> "mismatch", path |-> NoPath]>>

\* C9: every subdirectory of input_dir the sweep has come to, whatever its
\* name, has its skip notice, was not given to the converter and was not
\* listed.
C9_SubdirsSkipped ==
    \A j \in 1..(IF idx > 0 THEN Visited ELSE 0) :
        IsDir(fs0, Join(in_dir, listing[j])) =>
            /\ \A i \in DOMAIN calls : calls[i].inp # Join(in_dir, listing[j])
            /\ \A i \in DOMAIN ops : ops[i].path # Join(in_dir, listing[j])
            /\ pc = "loop" =>
                  \E i \in DOMAIN stdout : stdout[i] = [msg |-> "skip", path |-> Join(NoPath, listing[j])]

\* C10: in one sweep two distinct matching entries never get the same output
\* name: no two calls of the converter have the same output path.
C10_OutputNamesDistinct ==
    idx > 0 =>
        /\ \A i, j \in DOMAIN calls : i # j => calls[i].inp # calls[j].inp
        /\ \A i, j \in DOMAIN calls : i # j => calls[i].outp # calls[j].outp

\* A sweep has converted photo.JPG and photo.jpg, which differ in case only,
\* into two files.
C10_Witness ==
    /\ SweepEnded
    /\ Entries(fs0, in_dir) = {PhotoJPG, PhotoLower}
    /\ Len(calls) = 2
    /\ calls[1].ret = "True" /\ calls[2].ret = "True"
    /\ Cardinality(Entries(fs, out_dir)) = 2
    /\ Entries(fs0, out_dir) = {}

=============================================================================
